---------------------------- MODULE Spec2Model ----------------------------
(***************************************************************************)
(* Model of the account reconciliation engine of src/bot.py:               *)
(*   parse_accounts_accounts_section  (the document parser)                *)
(*   write_pk_yaml                    (the document serializer)            *)
(*   sync_config_to_pk                (the reconciler and its orchestrator)*)
(*                                                                         *)
(* A Python str is a sequence of one-character strings, so that strip(),   *)
(* the regular expressions and the quoting are computed character by       *)
(* character.  A dict of accounts is a record [keys, val]: keys is the     *)
(* insertion order of the aliases, val maps an alias to its two fields.    *)
(* A field that is missing from the inner dict is the empty string: the    *)
(* code reads every field through  d.get(f) or "" , which cannot tell the  *)
(* two apart.                                                              *)
(***************************************************************************)
EXTENDS Naturals, Sequences, FiniteSets

VARIABLES
    pc,             \* position of the running function
    text,           \* parser: the text being parsed
    lines,          \* parser: text.splitlines()
    i,              \* parser: index of the next line scanned
    accounts,       \* parser: the dict being built
    current_alias,  \* parser: the alias context ("" when none)
    X,              \* round trip: the account map handed to the serializer
    cfgFile,        \* config.yaml: [exists, text]
    pkFile,         \* pk.txt: [exists, text]
    cfg_accounts,   \* sync: accounts read from config.yaml
    pk_accounts,    \* sync: accounts read from pk.txt, merged in place
    pk_before,      \* sync: pk_accounts as it was when the loop was entered
    idx,            \* sync: position of the loop in cfg_accounts.items()
    added, filled, mismatches,   \* sync: the report counters
    err,            \* sync: the exception raised ("none" when none)
    run             \* number of the running invocation

vars == <<pc, text, lines, i, accounts, current_alias, X, cfgFile, pkFile,
          cfg_accounts, pk_accounts, pk_before, idx, added, filled,
          mismatches, err, run>>

parserVars == <<text, lines, i, accounts, current_alias>>
syncVars == <<cfgFile, pkFile, cfg_accounts, pk_accounts, pk_before, idx,
              added, filled, mismatches, err, run>>

-----------------------------------------------------------------------------
(* Bounds of the model.                                                    *)

\* Longest document (in lines) handed to the parser on its own.
MaxLines == 4
\* Number of successive invocations of the synchronisation that are followed.
MaxRuns == 2

-----------------------------------------------------------------------------
(* Characters and strings.                                                 *)

\* What \s matches and str.strip() removes, inside one line of text.
WS == {" ", "\t"}

\* The characters of [A-Za-z0-9_.-], in code point order.
AsciiOrder ==
    <<"-", ".", "0", "1", "2", "3", "4", "5", "6", "7", "8", "9", "A", "B",
      "C", "D", "E", "F", "G", "H", "I", "J", "K", "L", "M", "N", "O", "P",
      "Q", "R", "S", "T", "U", "V", "W", "X", "Y", "Z", "_", "a", "b", "c",
      "d", "e", "f", "g", "h", "i", "j", "k", "l", "m", "n", "o", "p", "q",
      "r", "s", "t", "u", "v", "w", "x", "y", "z">>

IdChar == {AsciiOrder[n] : n \in 1..Len(AsciiOrder)}

Ord(c) == CHOOSE n \in 1..Len(AsciiOrder) : AsciiOrder[n] = c

Drop(s, n) == SubSeq(s, n + 1, Len(s))

StartsWith(s, p) == Len(s) >= Len(p) /\ SubSeq(s, 1, Len(p)) = p

AllWS(s) == \A n \in 1..Len(s) : s[n] \in WS

\* Number of leading characters of s that belong to the class cls.
Lead(s, cls) ==
    CHOOSE n \in 0..Len(s) :
        /\ \A m \in 1..n : s[m] \in cls
        /\ (n = Len(s) \/ s[n + 1] \notin cls)

\* Number of trailing characters of s that belong to the class cls.
Trail(s, cls) ==
    CHOOSE n \in 0..Len(s) :
        /\ \A m \in (Len(s) - n + 1)..Len(s) : s[m] \in cls
        /\ (n = Len(s) \/ s[Len(s) - n] \notin cls)

LStrip(s) == Drop(s, Lead(s, WS))

\* str.strip()
Strip(s) ==
    LET t == LStrip(s)
    IN  SubSeq(t, 1, Len(t) - Trail(t, WS))

\* str < str of Python: code point order, a proper prefix is smaller.
RECURSIVE LexLess(_, _)
LexLess(s, t) ==
    IF t = <<>> THEN FALSE
    ELSE IF s = <<>> THEN TRUE
    ELSE IF s[1] # t[1] THEN Ord(s[1]) < Ord(t[1])
    ELSE LexLess(Tail(s), Tail(t))

\* str.splitlines(), for texts whose only line boundary is "\n".
RECURSIVE SplitLines(_)
SplitLines(t) ==
    IF t = <<>> THEN <<>>
    ELSE LET brk == {n \in 1..Len(t) : t[n] = "\n"}
         IN  IF brk = {} THEN <<t>>
             ELSE LET n == CHOOSE m \in brk : \A k \in brk : m <= k
                  IN  <<SubSeq(t, 1, n - 1)>> \o SplitLines(Drop(t, n))

\* _strip_quotes
_strip_quotes(s0) ==
    LET s == Strip(s0)
    IN  IF /\ s # <<>>
           /\ \/ (s[1] = "\"" /\ s[Len(s)] = "\"")
              \/ (s[1] = "'" /\ s[Len(s)] = "'")
        THEN SubSeq(s, 2, Len(s) - 1)
        ELSE s

-----------------------------------------------------------------------------
(* Dicts of accounts.                                                      *)

EmptyDict == [keys |-> <<>>, val |-> <<>>]

Has(d, a) == a \in DOMAIN d.val

\* d[a] = rec : a new key goes last, an old key keeps its place.
Put(d, a, rec) ==
    [keys |-> IF Has(d, a) THEN d.keys ELSE Append(d.keys, a),
     val  |-> [x \in (DOMAIN d.val) \cup {a} |->
                  IF x = a THEN rec ELSE d.val[x]]]

NoFields == [address |-> <<>>, private_key |-> <<>>]

\* dict == dict of Python: same keys, same values, whatever the order.
SameDict(d, e) == d.val = e.val

-----------------------------------------------------------------------------
(* The regular expressions of the parser, each on one line.                *)

kwAccounts == <<"a", "c", "c", "o", "u", "n", "t", "s">>
kwAddress == <<"a", "d", "d", "r", "e", "s", "s">>
kwPrivateKey == <<"p", "r", "i", "v", "a", "t", "e", "_", "k", "e", "y">>

NoMatch == [ok |-> FALSE, g |-> <<>>]

\*  \s*:  at the head of s; g is what follows the colon.
AfterColon(s) ==
    LET t == LStrip(s)
    IN  IF t # <<>> /\ t[1] = ":" THEN [ok |-> TRUE, g |-> Tail(t)]
        ELSE NoMatch

\*  re.match(r"^\s*accounts\s*:\s*$", line)
MatchAccounts(line) ==
    LET t == LStrip(line)
    IN  /\ StartsWith(t, kwAccounts)
        /\ LET r == AfterColon(Drop(t, Len(kwAccounts)))
           IN  r.ok /\ AllWS(r.g)

\*  re.match(r"^[A-Za-z0-9_.-]+\s*:\s*$", line) and not line.startswith(" ")
MatchTopKey(line) ==
    LET n == Lead(line, IdChar)
        r == AfterColon(Drop(line, n))
    IN  /\ n >= 1
        /\ r.ok /\ AllWS(r.g)
        /\ ~StartsWith(line, <<" ">>)

\*  re.match(r"^\s{2}([A-Za-z0-9_.-]+)\s*:\s*$", line); g is group 1.
MatchAlias(line) ==
    IF Len(line) >= 2 /\ line[1] \in WS /\ line[2] \in WS
    THEN LET rest == Drop(line, 2)
             n == Lead(rest, IdChar)
             r == AfterColon(Drop(rest, n))
         IN  IF n >= 1 /\ r.ok /\ AllWS(r.g)
             THEN [ok |-> TRUE, g |-> SubSeq(rest, 1, n)]
             ELSE NoMatch
    ELSE NoMatch

\*  ^\s{4}<kw>\s*:  at the head of line; g is what follows the colon.
MatchField(line, kw) ==
    IF Len(line) >= 4 /\ \A n \in 1..4 : line[n] \in WS
    THEN LET rest == Drop(line, 4)
         IN  IF StartsWith(rest, kw) THEN AfterColon(Drop(rest, Len(kw)))
             ELSE NoMatch
    ELSE NoMatch

\*  re.match(r"^\s{4}address\s*:\s*(.+?)\s*$", line); g is group 1.  The
\*  group is the value without the whitespace around it; when the value is
\*  nothing but whitespace, \s* gives its last character back to (.+?).
MatchAddr(line) ==
    LET r == MatchField(line, kwAddress)
    IN  IF r.ok /\ r.g # <<>>
        THEN [ok |-> TRUE,
              g  |-> IF Strip(r.g) # <<>> THEN Strip(r.g)
                     ELSE <<r.g[Len(r.g)]>>]
        ELSE NoMatch

\*  re.match(r"^\s{4}private_key\s*:\s*(\S+)\s*$", line); g is group 1.
MatchPk(line) ==
    LET r == MatchField(line, kwPrivateKey)
        v == Strip(r.g)
    IN  IF r.ok /\ v # <<>> /\ \A n \in 1..Len(v) : v[n] \notin WS
        THEN [ok |-> TRUE, g |-> v]
        ELSE NoMatch

-----------------------------------------------------------------------------
(* parse_accounts_accounts_section                                         *)

\* Index of the first line that matches the anchor, 0 when there is none.
FindStart(ls) ==
    LET hits == {n \in 1..Len(ls) : MatchAccounts(ls[n])}
    IN  IF hits = {} THEN 0
        ELSE CHOOSE n \in hits : \A m \in hits : n <= m

\* One round of the loop over lines[start + 1:], on the parser's state
\* st = [accounts, current_alias, stop]; stop is the break.
ScanLine(st, line) ==
    LET cur == st.current_alias
        SetField(rec) == [st EXCEPT !.accounts = Put(st.accounts, cur, rec)]
    IN  IF MatchTopKey(line) THEN [st EXCEPT !.stop = TRUE]
        ELSE IF MatchAlias(line).ok
        THEN LET a == MatchAlias(line).g
             IN  [accounts      |-> IF Has(st.accounts, a) THEN st.accounts
                                    ELSE Put(st.accounts, a, NoFields),
                  current_alias |-> a,
                  stop          |-> FALSE]
        ELSE IF cur = <<>> THEN st
        ELSE IF MatchAddr(line).ok
        THEN SetField([st.accounts.val[cur] EXCEPT
                          !.address = _strip_quotes(MatchAddr(line).g)])
        ELSE IF MatchPk(line).ok
        THEN SetField([st.accounts.val[cur] EXCEPT
                          !.private_key = _strip_quotes(MatchPk(line).g)])
        ELSE st

\* The cleanup: keep only the accounts that have at least one field.
Populated(rec) == rec.address # <<>> \/ rec.private_key # <<>>

Cleanup(d) ==
    LET keep == {a \in DOMAIN d.val : Populated(d.val[a])}
    IN  [keys |-> SelectSeq(d.keys, LAMBDA a : a \in keep),
         val  |-> [a \in keep |-> d.val[a]]]

\* The loop over ls[from..], until the break or the end.
RECURSIVE ScanFrom(_, _, _)
ScanFrom(st, ls, from) ==
    IF st.stop \/ from > Len(ls) THEN st
    ELSE ScanFrom(ScanLine(st, ls[from]), ls, from + 1)

ScanInit == [accounts |-> EmptyDict, current_alias |-> <<>>, stop |-> FALSE]

parse_accounts_accounts_section(t) ==
    LET ls == SplitLines(t)
        start == FindStart(ls)
    IN  IF start = 0 THEN EmptyDict
        ELSE Cleanup(ScanFrom(ScanInit, ls, start + 1).accounts)

\* read_accounts_file
read_accounts_file(file) ==
    IF ~file.exists THEN EmptyDict
    ELSE parse_accounts_accounts_section(file.text)

-----------------------------------------------------------------------------
(* write_pk_yaml                                                           *)

HeaderLine ==
    <<"#", " ", "I", "M", "P", "O", "R", "T", "A", "N", "T", ":", " ", "T",
      "h", "i", "s", " ", "f", "i", "l", "e", " ", "c", "o", "n", "t", "a",
      "i", "n", "s", " ", "P", "R", "I", "V", "A", "T", "E", " ", "K", "E",
      "Y", "S", ".", " ", "K", "E", "E", "P", " ", "I", "T", " ", "S", "E",
      "C", "R", "E", "T", ".", " ", "D", "O", " ", "N", "O", "T", " ", "C",
      "O", "M", "M", "I", "T", ".", "\n">>

AccountsLine == <<"a", "c", "c", "o", "u", "n", "t", "s", ":", "\n">>

\* f"  {alias}:\n"
AliasLine(alias) == <<" ", " ">> \o alias \o <<":", "\n">>

\* f'    address: "{addr}"\n'
AddressLine(addr) ==
    <<" ", " ", " ", " ">> \o kwAddress \o <<":", " ", "\"">> \o addr
        \o <<"\"", "\n">>

\* f"    private_key: {pk}\n"
PrivateKeyLine(pk) ==
    <<" ", " ", " ", " ">> \o kwPrivateKey \o <<":", " ">> \o pk \o <<"\n">>

\* The lines written for one alias.
AccountLines(alias, rec) ==
    LET addr == Strip(rec.address)
        pk == Strip(rec.private_key)
    IN  AliasLine(alias)
            \o (IF addr # <<>> THEN AddressLine(addr) ELSE <<>>)
            \o (IF pk # <<>> THEN PrivateKeyLine(pk) ELSE <<>>)

\* sorted(accounts.keys())
RECURSIVE SortedKeys(_)
SortedKeys(ks) ==
    IF ks = {} THEN <<>>
    ELSE LET least == CHOOSE a \in ks : \A b \in ks \ {a} : LexLess(a, b)
         IN  <<least>> \o SortedKeys(ks \ {least})

RECURSIVE JoinAccounts(_, _)
JoinAccounts(d, order) ==
    IF order = <<>> THEN <<>>
    ELSE AccountLines(Head(order), d.val[Head(order)])
            \o JoinAccounts(d, Tail(order))

\* "".join(lines), the text write_pk_yaml writes to pk.txt
write_pk_yaml(d) ==
    HeaderLine \o AccountsLine \o JoinAccounts(d, SortedKeys(DOMAIN d.val))

-----------------------------------------------------------------------------
(* The reconciliation loop of sync_config_to_pk, one alias at a time.      *)

\* A merge that takes the source's value whenever the source has one.
ShouldFill_Overwrite(pk_v, cfg_v) == cfg_v # <<>>

\*  not pk_addr and cfg_addr  (the same test serves private_key)
ShouldFill(pk_v, cfg_v) == pk_v = <<>> /\ cfg_v # <<>>

\* A mismatch test that leaves the comparison out.
IsMismatch_NoCompare(cfg_v, pk_v2) == cfg_v # <<>> /\ pk_v2 # <<>>

\*  cfg_addr and pk_addr2 and cfg_addr != pk_addr2
IsMismatch(cfg_v, pk_v2) == cfg_v # <<>> /\ pk_v2 # <<>> /\ cfg_v # pk_v2

\* An insertion that rebuilds the dict around the new alias alone.
AddAccount_Rebuild(pk, alias, cfg_addr, cfg_pk) ==
    Put(EmptyDict, alias, [address |-> cfg_addr, private_key |-> cfg_pk])

\*  pk_accounts[alias] = {"address": cfg_addr, "private_key": cfg_pk}
AddAccount(pk, alias, cfg_addr, cfg_pk) ==
    Put(pk, alias, [address |-> cfg_addr, private_key |-> cfg_pk])

Count(b) == IF b THEN 1 ELSE 0

\* One round of  for alias, d in cfg_accounts.items()  on the loop's state
\* st = [pk_accounts, added, filled, mismatches].
MergeAlias(st, alias, d) ==
    LET pk == st.pk_accounts
        cfg_addr == Strip(d.address)
        cfg_pk == Strip(d.private_key)
    IN  IF ~Has(pk, alias)
        THEN [st EXCEPT !.pk_accounts = AddAccount(pk, alias, cfg_addr, cfg_pk),
                        !.added = @ + 1]
        ELSE LET old == pk.val[alias]
                 pk_addr == Strip(old.address)
                 pk_priv == Strip(old.private_key)
                 fillA == ShouldFill(pk_addr, cfg_addr)
                 fillP == ShouldFill(pk_priv, cfg_pk)
                 new == [address     |-> IF fillA THEN cfg_addr
                                         ELSE old.address,
                         private_key |-> IF fillP THEN cfg_pk
                                         ELSE old.private_key]
                 pk_addr2 == Strip(new.address)
                 pk_priv2 == Strip(new.private_key)
             IN  [pk_accounts |-> Put(pk, alias, new),
                  added       |-> st.added,
                  filled      |-> st.filled + Count(fillA) + Count(fillP),
                  mismatches  |-> st.mismatches
                                    + Count(IsMismatch(cfg_addr, pk_addr2))
                                    + Count(IsMismatch(cfg_pk, pk_priv2))]

\* A check that lets a config.yaml without accounts through.
ConfigError_NoEmptyCheck(file) ==
    IF ~file.exists THEN "FileNotFoundError" ELSE "none"

\* The exception sync_config_to_pk raises before it reads pk.txt.
ConfigError(file) ==
    IF ~file.exists THEN "FileNotFoundError"
    ELSE IF read_accounts_file(file).keys = <<>> THEN "RuntimeError"
    ELSE "none"

-----------------------------------------------------------------------------
(* Inputs.                                                                 *)

Absent == [exists |-> FALSE, text |-> <<>>]
File(t) == [exists |-> TRUE, text |-> t]

RECURSIVE JoinLines(_)
JoinLines(ls) ==
    IF ls = <<>> THEN <<>> ELSE Head(ls) \o <<"\n">> \o JoinLines(Tail(ls))

\* Lines of the documents handed to the parser on its own: anchors with and
\* without indentation, a sibling top-level key, alias headers indented by
\* two spaces, three spaces and two tabs, field lines indented by four
\* spaces and by four tabs.
ParseLineSet ==
    { kwAccounts \o <<":">>,
      <<" ", " ">> \o kwAccounts \o <<":">>,
      <<"o", ":">>,
      <<" ", " ", "a", ":">>,
      <<" ", " ", " ", "a", ":">>,
      <<"\t", "\t", "b", ":">>,
      <<" ", " ", " ", " ">> \o kwAddress \o <<":", " ", "x">>,
      <<"\t", "\t", "\t", "\t">> \o kwAddress \o <<":", " ", "y">>,
      <<" ", " ", " ", " ">> \o kwPrivateKey \o <<":", " ", "k">> }

ParseTexts ==
    {JoinLines(ls) : ls \in UNION {[1..n -> ParseLineSet] : n \in 0..MaxLines}}

-----------------------------------------------------------------------------
(* The parser, line by line.                                               *)

Idle ==
    /\ X = EmptyDict /\ cfgFile = Absent /\ pkFile = Absent
    /\ cfg_accounts = EmptyDict /\ pk_accounts = EmptyDict
    /\ pk_before = EmptyDict /\ idx = 1
    /\ added = 0 /\ filled = 0 /\ mismatches = 0
    /\ err = "none" /\ run = 1

ParserIdle ==
    /\ lines = <<>> /\ i = 1 /\ accounts = EmptyDict /\ current_alias = <<>>

InitParse ==
    /\ pc = "parse"
    /\ text \in ParseTexts
    /\ ParserIdle
    /\ Idle

\* lines = text.splitlines(); the search for the anchor; the early return.
FindAnchor ==
    /\ pc = "parse"
    /\ lines' = SplitLines(text)
    /\ i' = FindStart(lines') + 1
    /\ pc' = IF FindStart(lines') = 0 THEN "parsed" ELSE "scan"
    /\ accounts' = EmptyDict
    /\ current_alias' = <<>>
    /\ UNCHANGED <<text, X, syncVars>>

\* One round of the loop over lines[start + 1:].
ScanStep ==
    /\ pc = "scan"
    /\ i <= Len(lines)
    /\ LET st == ScanLine([accounts |-> accounts,
                           current_alias |-> current_alias,
                           stop |-> FALSE], lines[i])
       IN  /\ accounts' = st.accounts
           /\ current_alias' = st.current_alias
           /\ pc' = IF st.stop THEN "cleanup" ELSE "scan"
           /\ i' = IF st.stop THEN i ELSE i + 1
    /\ UNCHANGED <<text, lines, X, syncVars>>

\* The loop runs out of lines.
ScanEnd ==
    /\ pc = "scan"
    /\ i > Len(lines)
    /\ pc' = "cleanup"
    /\ UNCHANGED <<parserVars, X, syncVars>>

\* The cleanup and the return.
ParseReturn ==
    /\ pc = "cleanup"
    /\ accounts' = Cleanup(accounts)
    /\ pc' = "parsed"
    /\ UNCHANGED <<text, lines, i, current_alias, X, syncVars>>

NextParse == FindAnchor \/ ScanStep \/ ScanEnd \/ ParseReturn

SpecParse == InitParse /\ [][NextParse]_vars

-----------------------------------------------------------------------------
(* The round trip: write_pk_yaml, then read_accounts_file on what it wrote. *)

\* Field values of the account maps handed to the serializer: plain, with
\* a blank inside, with a blank in front, wrapped in double quotes.
RTAddr == {<<>>, <<"x">>, <<"x", " ", "y">>, <<" ", "x">>}
RTKey == {<<>>, <<"k">>, <<"k", " ", "j">>, <<"\"", "k", "\"">>}

RTRecs ==
    {r \in [address : RTAddr, private_key : RTKey] : Populated(r)}

\* Valid account sets: alias a alone, or entered after alias b.
RTInputs ==
    {Put(EmptyDict, <<"a">>, r) : r \in RTRecs}
        \cup {Put(Put(EmptyDict, <<"b">>, [NoFields EXCEPT !.address = <<"y">>]),
                  <<"a">>, r) : r \in RTRecs}

InitRoundTrip ==
    /\ pc = "serialize"
    /\ X \in RTInputs
    /\ text = <<>>
    /\ ParserIdle
    /\ cfgFile = Absent /\ pkFile = Absent
    /\ cfg_accounts = EmptyDict /\ pk_accounts = EmptyDict
    /\ pk_before = EmptyDict /\ idx = 1
    /\ added = 0 /\ filled = 0 /\ mismatches = 0
    /\ err = "none" /\ run = 1

\* write_pk_yaml(X)
RtWrite ==
    /\ pc = "serialize"
    /\ pkFile' = File(write_pk_yaml(X))
    /\ pc' = "read"
    /\ UNCHANGED <<parserVars, X, cfgFile, cfg_accounts, pk_accounts,
                   pk_before, idx, added, filled, mismatches, err, run>>

\* read_accounts_file(pk_path()): the text handed to the parser
RtRead ==
    /\ pc = "read"
    /\ pkFile.exists
    /\ text' = pkFile.text
    /\ pc' = "parse"
    /\ UNCHANGED <<lines, i, accounts, current_alias, X, syncVars>>

NextRoundTrip == RtWrite \/ RtRead \/ NextParse

SpecRoundTrip == InitRoundTrip /\ [][NextRoundTrip]_vars

-----------------------------------------------------------------------------
(* The reconciliation loop on its own, run again on its own result.        *)

\* Field values the parser can return: plain, blank, with a blank in front.
RecAddr == {<<>>, <<"x">>, <<"y">>, <<" ">>, <<" ", "x">>}
RecKey == {<<>>, <<"k">>, <<"j">>}

RecRecsA ==
    {r \in [address : RecAddr, private_key : RecKey] : Populated(r)}

RecRecsB ==
    {[NoFields EXCEPT !.address = <<"x">>],
     [NoFields EXCEPT !.private_key = <<"k">>]}

\* Account sets over the aliases a and b, as read_accounts_file returns them.
RecDicts ==
    LET WithA == {EmptyDict} \cup {Put(EmptyDict, <<"a">>, r) : r \in RecRecsA}
    IN  WithA \cup {Put(d, <<"b">>, r) : d \in WithA, r \in RecRecsB}

LoopDone == pc = "loop" /\ idx > Len(cfg_accounts.keys)

InitReconcile ==
    /\ pc = "loop"
    /\ cfg_accounts \in RecDicts
    /\ pk_accounts \in RecDicts
    /\ pk_before = pk_accounts
    /\ idx = 1
    /\ added = 0 /\ filled = 0 /\ mismatches = 0
    /\ err = "none" /\ run = 1
    /\ cfgFile = Absent /\ pkFile = Absent
    /\ X = EmptyDict
    /\ text = <<>>
    /\ ParserIdle

\* One round of  for alias, d in cfg_accounts.items().
LoopStep ==
    /\ pc = "loop"
    /\ idx <= Len(cfg_accounts.keys)
    /\ LET alias == cfg_accounts.keys[idx]
           st == MergeAlias([pk_accounts |-> pk_accounts, added |-> added,
                             filled |-> filled, mismatches |-> mismatches],
                            alias, cfg_accounts.val[alias])
       IN  /\ pk_accounts' = st.pk_accounts
           /\ added' = st.added
           /\ filled' = st.filled
           /\ mismatches' = st.mismatches
    /\ idx' = idx + 1
    /\ UNCHANGED <<pc, parserVars, X, cfgFile, pkFile, cfg_accounts,
                   pk_before, err, run>>

\* The same source is reconciled into the result of the loop.
ReconcileAgain ==
    /\ LoopDone
    /\ run < MaxRuns
    /\ run' = run + 1
    /\ pk_before' = pk_accounts
    /\ idx' = 1
    /\ added' = 0 /\ filled' = 0 /\ mismatches' = 0
    /\ UNCHANGED <<pc, parserVars, X, cfgFile, pkFile, cfg_accounts,
                   pk_accounts, err>>

NextReconcile == LoopStep \/ ReconcileAgain

SpecReconcile == InitReconcile /\ [][NextReconcile]_vars

-----------------------------------------------------------------------------
(* sync_config_to_pk on config.yaml and pk.txt, invoked again and again.   *)

\* The value texts of the documents: none, bare, quoted, a quoted blank;
\* a bare key and a key in double quotes inside single quotes.
DocAddrLines ==
    { <<>>,
      JoinLines(<<<<" ", " ", " ", " ">> \o kwAddress \o <<":", " ", "x">>>>),
      JoinLines(<<<<" ", " ", " ", " ">> \o kwAddress
                    \o <<":", " ", "\"", "y", "\"">>>>),
      JoinLines(<<<<" ", " ", " ", " ">> \o kwAddress
                    \o <<":", " ", "\"", " ", "\"">>>>) }

DocKeyLines ==
    { <<>>,
      JoinLines(<<<<" ", " ", " ", " ">> \o kwPrivateKey \o <<":", " ", "k">>>>),
      JoinLines(<<<<" ", " ", " ", " ">> \o kwPrivateKey
                    \o <<":", " ", "'", "\"", "k", "\"", "'">>>>) }

DocBlocksA ==
    {<<>>} \cup {AliasLine(<<"a">>) \o al \o kl :
                    al \in DocAddrLines, kl \in DocKeyLines}

DocBlocksB ==
    {<<>>, AliasLine(<<"b">>) \o AddressLine(<<"x">>)}

\* Documents: an accounts section with the blocks of a and b, and a
\* document that holds another section only.
Docs ==
    {AccountsLine \o ba \o bb : ba \in DocBlocksA, bb \in DocBlocksB}
        \cup {JoinLines(<<<<"o", ":">>>>)}

Files == {Absent} \cup {File(t) : t \in Docs}

Init ==
    /\ pc = "start"
    /\ cfgFile \in Files
    /\ pkFile \in Files
    /\ cfg_accounts = EmptyDict /\ pk_accounts = EmptyDict
    /\ pk_before = EmptyDict /\ idx = 1
    /\ added = 0 /\ filled = 0 /\ mismatches = 0
    /\ err = "none" /\ run = 1
    /\ X = EmptyDict
    /\ text = <<>>
    /\ ParserIdle

\* The two checks on config.yaml, and the read of its accounts.
CheckConfig ==
    /\ pc = "start"
    /\ err' = ConfigError(cfgFile)
    /\ pc' = IF err' = "none" THEN "read_pk" ELSE "raised"
    /\ cfg_accounts' = IF err' = "none" THEN read_accounts_file(cfgFile)
                       ELSE cfg_accounts
    /\ UNCHANGED <<parserVars, X, cfgFile, pkFile, pk_accounts, pk_before,
                   idx, added, filled, mismatches, run>>

\* pk_accounts = read_accounts_file(pk_path()), and the counters set to 0.
ReadPk ==
    /\ pc = "read_pk"
    /\ pk_accounts' = read_accounts_file(pkFile)
    /\ pk_before' = pk_accounts'
    /\ idx' = 1
    /\ added' = 0 /\ filled' = 0 /\ mismatches' = 0
    /\ pc' = "loop"
    /\ UNCHANGED <<parserVars, X, cfgFile, pkFile, cfg_accounts, err, run>>

\* out = write_pk_yaml(pk_accounts), after the loop.
WritePk ==
    /\ LoopDone
    /\ pkFile' = File(write_pk_yaml(pk_accounts))
    /\ pc' = "done"
    /\ UNCHANGED <<parserVars, X, cfgFile, cfg_accounts, pk_accounts,
                   pk_before, idx, added, filled, mismatches, err, run>>

\* The menu invokes sync_config_to_pk again; config.yaml is as it was.
SyncAgain ==
    /\ pc = "done"
    /\ run < MaxRuns
    /\ run' = run + 1
    /\ pc' = "start"
    /\ cfg_accounts' = EmptyDict /\ pk_accounts' = EmptyDict
    /\ pk_before' = EmptyDict /\ idx' = 1
    /\ added' = 0 /\ filled' = 0 /\ mismatches' = 0
    /\ UNCHANGED <<parserVars, X, cfgFile, pkFile, err>>

Next == CheckConfig \/ ReadPk \/ LoopStep \/ WritePk \/ SyncAgain

Spec == Init /\ [][Next]_vars

-----------------------------------------------------------------------------
(* Properties of the reconciliation loop (SpecReconcile).  When the loop   *)
(* has run over every alias of the source, Src is the source set S, Dst    *)
(* the destination set D as the loop found it, Res the result.             *)

Src == cfg_accounts
Dst == pk_before
Res == pk_accounts

Fields == {"address", "private_key"}

Aliases(d) == DOMAIN d.val

\* The (alias, field) pairs of the aliases that S and D share.
SharedPairs == (Aliases(Src) \cap Aliases(Dst)) \X Fields

\* Pairs that S and D both give a value, the two values differing as texts.
TextConflicts ==
    {p \in SharedPairs :
        /\ Src.val[p[1]][p[2]] # <<>>
        /\ Dst.val[p[1]][p[2]] # <<>>
        /\ Src.val[p[1]][p[2]] # Dst.val[p[1]][p[2]]}

\* Pairs that S and D both give a value that is not blank, the two values
\* differing once the whitespace around them is removed.
TrimmedConflicts ==
    {p \in SharedPairs :
        /\ Strip(Src.val[p[1]][p[2]]) # <<>>
        /\ Strip(Dst.val[p[1]][p[2]]) # <<>>
        /\ Strip(Src.val[p[1]][p[2]]) # Strip(Dst.val[p[1]][p[2]])}

\* C1 as claimed: after the loop every alias of D is in the result, and every
\* field that was non-empty in D has exactly the value it had in D.
C1_KeepsNonEmptyFields ==
    LoopDone =>
        \A a \in Aliases(Dst) :
            /\ Has(Res, a)
            /\ \A f \in Fields :
                  Dst.val[a][f] # <<>> => Res.val[a][f] = Dst.val[a][f]

\* C1 as amended: after the loop every alias of D is in the result, and every
\* field of D that is non-empty once the whitespace around it is removed has
\* exactly the value it had in D, also when S carries another value for it.
C1_KeepsNonBlankFields ==
    LoopDone =>
        \A a \in Aliases(Dst) :
            /\ Has(Res, a)
            /\ \A f \in Fields :
                  Strip(Dst.val[a][f]) # <<>> => Res.val[a][f] = Dst.val[a][f]

\* The mismatch case has happened: the loop is over, S and D give some field
\* of a shared alias two different values, and a mismatch was counted.
C1_Witness ==
    /\ LoopDone
    /\ run = 1
    /\ TrimmedConflicts # {}
    /\ mismatches >= 1

\* C2 as claimed: every alias of S is in the result, and a non-empty field of
\* S has S's value in the result unless D had a non-empty value that differs,
\* in which case the result keeps D's value and the mismatch is counted.
C2_Additivity ==
    LoopDone =>
        /\ \A a \in Aliases(Src) :
              /\ Has(Res, a)
              /\ \A f \in Fields :
                    Src.val[a][f] # <<>> =>
                        IF <<a, f>> \in TextConflicts
                        THEN Res.val[a][f] = Dst.val[a][f]
                        ELSE Res.val[a][f] = Src.val[a][f]
        /\ mismatches >= Cardinality(TextConflicts)

\* C2 as amended: every alias of S is in the result; a field of S that is
\* non-empty once trimmed has S's trimmed value in the result unless D had a
\* value for it that is non-empty once trimmed, in which case the result
\* keeps D's value as it was; and the mismatch counter counts exactly the
\* fields whose trimmed values in S and D are both non-empty and differ.
C2_AdditivityTrimmed ==
    LoopDone =>
        /\ \A a \in Aliases(Src) :
              /\ Has(Res, a)
              /\ \A f \in Fields :
                    Strip(Src.val[a][f]) # <<>> =>
                        IF Has(Dst, a) /\ Strip(Dst.val[a][f]) # <<>>
                        THEN Res.val[a][f] = Dst.val[a][f]
                        ELSE Res.val[a][f] = Strip(Src.val[a][f])
        /\ mismatches = Cardinality(TrimmedConflicts)

\* The loop is over and has met the three cases: an alias it added, a field
\* it filled and a field it left alone because D's value differs.
C2_Witness ==
    /\ LoopDone
    /\ run = 1
    /\ added = 1 /\ filled = 1 /\ mismatches = 1

\* C3: an alias that is in D and not in S is in the result, with both
\* fields exactly as in D.
C3_NoDataLoss ==
    LoopDone =>
        \A a \in Aliases(Dst) \ Aliases(Src) :
            Has(Res, a) /\ Res.val[a] = Dst.val[a]

\* The loop has added an alias of S to a D that holds an alias S lacks.
C3_Witness ==
    /\ LoopDone
    /\ run = 1
    /\ added = 1
    /\ Aliases(Dst) \ Aliases(Src) # {}

\* C4: reconciling S into the result of a reconciliation of S gives the
\* same account map, and reports added = 0 and filled = 0.
C4_IdempotentMerge ==
    (LoopDone /\ run >= 2) =>
        /\ SameDict(Res, Dst)
        /\ added = 0
        /\ filled = 0

\* The second reconciliation is over, of a source whose first reconciliation
\* had something to add or fill, and it reports a mismatch.
C4_Witness ==
    /\ LoopDone
    /\ run = 2
    /\ mismatches >= 1
    /\ Cardinality(Aliases(Src)) = 2

\* C9 as claimed: added counts the aliases of S absent from D, filled the
\* shared fields empty in D and non-empty in S, mismatches the shared fields
\* whose values in S and D are both non-empty and differ.
C9_ReportCounts ==
    LoopDone =>
        /\ added = Cardinality(Aliases(Src) \ Aliases(Dst))
        /\ filled = Cardinality({p \in SharedPairs :
                                    /\ Dst.val[p[1]][p[2]] = <<>>
                                    /\ Src.val[p[1]][p[2]] # <<>>})
        /\ mismatches = Cardinality(TextConflicts)

\* C9 as amended: the same counts, with every value taken without the
\* whitespace around it: filled counts the shared fields blank in D and not
\* blank in S, mismatches the shared fields not blank in either whose
\* trimmed values differ.
C9_ReportCountsTrimmed ==
    LoopDone =>
        /\ added = Cardinality(Aliases(Src) \ Aliases(Dst))
        /\ filled = Cardinality({p \in SharedPairs :
                                    /\ Strip(Dst.val[p[1]][p[2]]) = <<>>
                                    /\ Strip(Src.val[p[1]][p[2]]) # <<>>})
        /\ mismatches = Cardinality(TrimmedConflicts)

\* The spec's second scenario: S gives alias a an address only, D gives it a
\* private key only, and the loop reports added = 0, filled = 1, mismatches = 0.
C9_Witness ==
    /\ LoopDone
    /\ run = 1
    /\ Src.val = [a \in {<<"a">>} |-> [NoFields EXCEPT !.address = <<"x">>]]
    /\ Dst.val = [a \in {<<"a">>} |-> [NoFields EXCEPT !.private_key = <<"k">>]]
    /\ added = 0 /\ filled = 1 /\ mismatches = 0

-----------------------------------------------------------------------------
(* Properties of the round trip (SpecRoundTrip).                           *)

\* C5: parsing the text write_pk_yaml emits for a valid account set X gives
\* an account map equal to X.
C5_RoundTrip ==
    pc = "parsed" => SameDict(accounts, X)

-----------------------------------------------------------------------------
(* Properties of the parser (SpecParse).                                   *)

\* The key accounts: at zero indentation, nothing but whitespace after it.
IsTopLevelAnchor(line) == MatchAccounts(line) /\ Lead(line, WS) = 0

\* The accounts described by the lines strictly between the first top-level
\* anchor and the next top-level key line; none when there is no anchor.
SectionAccounts(ls) ==
    LET anchors == {n \in 1..Len(ls) : IsTopLevelAnchor(ls[n])}
    IN  IF anchors = {} THEN EmptyDict
        ELSE LET s == CHOOSE n \in anchors : \A m \in anchors : n <= m
                 ends == {n \in (s + 1)..Len(ls) : MatchTopKey(ls[n])}
                 e == IF ends = {} THEN Len(ls) + 1
                      ELSE CHOOSE n \in ends : \A m \in ends : n <= m
             IN  Cleanup(ScanFrom(ScanInit, SubSeq(ls, s + 1, e - 1), 1).accounts)

\* C7: the parser returns exactly the accounts of the lines between the
\* first zero-indentation accounts: line and the next zero-indentation key
\* line, and the empty set when the text has no zero-indentation anchor.
C7_SectionBoundaries ==
    pc = "parsed" => SameDict(accounts, SectionAccounts(SplitLines(text)))

\* The line starts with exactly n space characters and no other whitespace
\* follows them.
IndentedBySpaces(line, n) == Lead(line, {" "}) = n /\ Lead(line, WS) = n

\* C8: in the section a line changes the current alias (or enters an alias)
\* only if it is indented by exactly 2 spaces, and changes a field only if
\* it is indented by exactly 4 spaces while an alias context is open; so a
\* text without any line indented by exactly 2 spaces parses to no account.
C8_StrictIndentation ==
    /\ [][(pc = "scan" /\ i <= Len(lines)) =>
            /\ (current_alias' # current_alias \/ accounts'.keys # accounts.keys)
                  => IndentedBySpaces(lines[i], 2)
            /\ (accounts'.keys = accounts.keys /\ accounts'.val # accounts.val)
                  => (IndentedBySpaces(lines[i], 4) /\ current_alias # <<>>)
         ]_vars
    /\ [](pc = "parsed" =>
            ((\A n \in 1..Len(lines) : ~IndentedBySpaces(lines[n], 2))
                => accounts = EmptyDict))

-----------------------------------------------------------------------------
(* Properties of sync_config_to_pk (Spec).                                 *)

\* C6: the call ends in an error exactly when config.yaml is missing
\* (FileNotFoundError) or holds no account (RuntimeError), it then never gets
\* as far as reading or writing pk.txt, and pk.txt is written by no step but
\* the one that follows the complete loop of a call that raised nothing.
C6_FatalWithoutWrite ==
    /\ [](/\ (~cfgFile.exists \/ read_accounts_file(cfgFile) = EmptyDict)
                => pc \in {"start", "raised"}
          /\ pc = "raised"
                => /\ ~cfgFile.exists \/ read_accounts_file(cfgFile) = EmptyDict
                   /\ err = IF ~cfgFile.exists THEN "FileNotFoundError"
                            ELSE "RuntimeError"
          /\ pc # "raised" => err = "none")
    /\ [][(pkFile' # pkFile \/ (pc' = "done" /\ pc # "done"))
            => (LoopDone /\ err = "none")]_vars

\* config.yaml is there without any account, pk.txt is there, and the call
\* has ended with the RuntimeError.
C6_Witness ==
    /\ pc = "raised"
    /\ err = "RuntimeError"
    /\ cfgFile.exists
    /\ pkFile.exists
    /\ read_accounts_file(pkFile) # EmptyDict

\* C10: a second call in succession, on the pk.txt the first call wrote,
\* reports added = 0 and filled = 0 and writes the same text again.
C10_PersistedFixedPoint ==
    [][(run >= 2 /\ LoopDone /\ pc' = "done") =>
          (pkFile' = pkFile /\ added = 0 /\ filled = 0)]_vars

=============================================================================
